---- MODULE Spec2Model ----
(***************************************************************************)
(* Vec4f of vcl_rust (src/src/vectorf128.rs): a 128-bit register of four   *)
(* f32 lanes.  A lane is its IEEE-754 bit pattern, held as the set of the  *)
(* positions of its 1 bits (bit 31 the sign, 30..23 the exponent, 22..0    *)
(* the mantissa), so that bitwise instructions act on every one of the 32  *)
(* bits and the float compare can tell NaN and the two zeros apart.  A     *)
(* register is the sequence of its four lanes, lane 0 first (index 1).     *)
(***************************************************************************)
EXTENDS Integers, Sequences, FiniteSets

VARIABLES xmm, last, made, recent, sse41, src, srcAddr, out, outAddr, origin,
          rhs, sse3, selMask, stack

vars == <<xmm, last, made, recent, sse41, src, srcAddr, out, outAddr, origin,
          rhs, sse3, selMask, stack>>

LEN == 4

(* ---- bounds ---- *)
MaxIndex == 5
MaxLen == 5

(* ---- f32 bit patterns ---- *)
\* a lane is the set of the bit positions (0 = lowest) that are 1
Bits == 0..31
SignBit == 31
ExpField == 23..30
ManField == 0..22

I32Min == -2147483647 - 1
I32Max == 2147483647

RECURSIVE bits_of(_, _)
bits_of(n, pos) ==
    IF n = 0 THEN {}
    ELSE (IF n % 2 = 1 THEN {pos} ELSE {}) \cup bits_of(n \div 2, pos + 1)

\* the 32 bits of an i32 (two's complement) seen as an f32
i32_bits(n) ==
    IF n < 0 THEN bits_of(n - I32Min, 0) \cup {SignBit}
    ELSE bits_of(n, 0)

PosZero == {}
NegZero == {SignBit}
One == 23..29
NegTwoHalf == {21, 30, 31}
QNaN == 22..30
PosInf == 23..30
Three == {22, 30}
\* 1.4f32, 0x3FB33333
OnePointFour == {0, 1, 4, 5, 8, 9, 12, 13, 16, 17, 20, 21} \cup (23..29)

Floats == {PosZero, NegZero, NegTwoHalf, QNaN}

IsNaN(f) == ExpField \subseteq f /\ f \cap ManField # {}

IsZero(f) == f \ {SignBit} = {}

\* IEEE compare-equal of two lanes: NaN equals nothing, -0.0 equals +0.0
f32_eq(f, g) ==
    /\ ~IsNaN(f)
    /\ ~IsNaN(g)
    /\ (f = g \/ (IsZero(f) /\ IsZero(g)))

sign_of(f) == IF SignBit \in f THEN 1 ELSE 0
lane_xor(f, g) == (f \ g) \cup (g \ f)

(* ---- IEEE-754 binary32 arithmetic on one lane, round to nearest even ---- *)
\* the integer written in bits lo..hi of a lane
RECURSIVE field(_, _, _)
field(f, lo, hi) ==
    IF hi < lo THEN 0
    ELSE (IF lo \in f THEN 1 ELSE 0) + 2 * field(f, lo + 1, hi)

IsInf(f) == ExpField \subseteq f /\ f \cap ManField = {}

\* a finite lane is (-1)^sign * sig * 2^scale; unpack gives <<sig, scale>>
unpack(f) ==
    IF f \cap ExpField = {} THEN <<field(f, 0, 22), -149>>
    ELSE <<field(f, 0, 22) + 2^23, field(f, 23, 30) - 150>>

RECURSIVE bit_len(_)
bit_len(n) ==
    IF n = 0 THEN 0
    ELSE IF n >= 256 THEN 8 + bit_len(n \div 256)
    ELSE 1 + bit_len(n \div 2)

\* <<sig, scale>> with the leading 1 of sig moved up k places
shift_up(u, k) == <<u[1] * 2^k, u[2] - k>>

\* unpack with the leading 1 of sig at bit 23 (f finite, non-zero)
normalized(f) ==
    IF f \cap ExpField = {} THEN shift_up(unpack(f), 24 - bit_len(field(f, 0, 22)))
    ELSE unpack(f)

\* the NaN an invalid operation returns (0xFFC00000), and a NaN operand as it
\* is returned: with the quiet bit set
Indefinite == {SignBit} \cup QNaN
quiet(f) == f \cup {22}

sign_bits(sign) == IF sign = 1 THEN {SignBit} ELSE {}

\* the lane of biased exponent e >= 1 and significand m <= 2^24; a significand
\* below 2^23 goes with e = 1 and gives a subnormal, 2^24 carries into e
pack(sign, e, m) == sign_bits(sign) \cup bits_of((e - 1) * 2^23 + m, 0)

\* m0 and the bits cut below it (twice their value against the unit): up when
\* above half, to the even significand when at half
round_cut(sign, e, sticky, m0, twice_rem, unit) ==
    IF twice_rem > unit \/ (twice_rem = unit /\ (sticky \/ m0 % 2 = 1))
    THEN pack(sign, e, m0 + 1)
    ELSE pack(sign, e, m0)

\* S seen at exponent e: shifted left exactly, or cut by shift bits
round_shift(sign, S, sticky, nb, e, shift) ==
    IF shift <= 0 THEN pack(sign, e, S * 2^(-shift))
    ELSE IF shift > nb THEN sign_bits(sign)
    ELSE round_cut(sign, e, sticky, S \div 2^shift, 2 * (S % 2^shift), 2^shift)

round_exp(sign, S, sticky, nb, e, q) ==
    IF e >= 255 THEN sign_bits(sign) \cup PosInf
    ELSE round_shift(sign, S, sticky, nb, e, e - q - 150)

\* nb the length of S: the exponent that puts its leading 1 at bit 23, or 1
\* (subnormal) when that exponent is below 1
round_len(sign, S, q, sticky, nb) ==
    round_exp(sign, S, sticky, nb, IF q + nb + 126 < 1 THEN 1 ELSE q + nb + 126, q)

\* the lane nearest to (-1)^sign * (S + t) * 2^q, where 0 <= S < 2^30 and t is
\* a fraction in (0, 1) when sticky, 0 otherwise; ties go to the even mantissa
round_f32(sign, S, q, sticky) ==
    IF S = 0 THEN sign_bits(sign)
    ELSE round_len(sign, S, q, sticky, bit_len(S))

\* the sum S * 2^q of the aligned significands, lost telling that bits of the
\* smaller operand fell below 2^q
add_sum(sign, S, q, same, lost) ==
    IF S = 0 /\ ~lost /\ ~same THEN PosZero
    ELSE round_f32(sign, S, q, lost)

\* Sb the larger significand, Ss the smaller one shifted down by d places
add_aligned(sign, same, Sb, Ss, lost, q) ==
    add_sum(sign,
            IF same THEN Sb + Ss ELSE IF lost THEN Sb - Ss - 1 ELSE Sb - Ss,
            q, same, lost)

add_shifted(sign, same, Sb, whole, d, q) ==
    IF d > 29 THEN add_aligned(sign, same, Sb, 0, whole # 0, q)
    ELSE add_aligned(sign, same, Sb, whole \div 2^d, whole % 2^d # 0, q)

\* big is the operand of the larger magnitude; five guard bits below it
add_ordered(sign, same, big, small) ==
    add_shifted(sign, same, big[1] * 32, small[1] * 32, big[2] - small[2], big[2] - 5)

add_unpacked(sf, uf, sg, ug) ==
    IF uf[2] > ug[2] \/ (uf[2] = ug[2] /\ uf[1] >= ug[1])
    THEN add_ordered(sf, sf = sg, uf, ug)
    ELSE add_ordered(sg, sf = sg, ug, uf)

\* ADDSS of two lanes that are not NaN and not infinite
add_finite(f, g) == add_unpacked(sign_of(f), unpack(f), sign_of(g), unpack(g))

f32_add(f, g) ==
    IF IsNaN(f) THEN quiet(f)
    ELSE IF IsNaN(g) THEN quiet(g)
    ELSE IF IsInf(f) THEN (IF IsInf(g) /\ sign_of(f) # sign_of(g) THEN Indefinite ELSE f)
    ELSE IF IsInf(g) THEN g
    ELSE add_finite(f, g)

f32_sub(f, g) ==
    IF IsNaN(f) THEN quiet(f)
    ELSE IF IsNaN(g) THEN quiet(g)
    ELSE f32_add(f, lane_xor(g, {SignBit}))

\* the sign of a product or a quotient
sign_xor(f, g) == (sign_of(f) + sign_of(g)) % 2

\* the 48-bit product as hi * 2^24 + low: its top 30 bits, the rest sticky
mul_round(sign, hi, low, q) ==
    round_f32(sign, (hi + low \div 2^24) * 64 + (low % 2^24) \div 2^18, q, low % 2^18 # 0)

\* the product of the 12-bit halves a1 a0 and b1 b0 of the significands
mul_parts(sign, a1, a0, b1, b0, q) ==
    mul_round(sign, a1 * b1 + (a1 * b0 + a0 * b1) \div 4096,
              ((a1 * b0 + a0 * b1) % 4096) * 4096 + a0 * b0, q)

mul_normal(sign, nf, ng) ==
    mul_parts(sign, nf[1] \div 4096, nf[1] % 4096, ng[1] \div 4096, ng[1] % 4096,
              nf[2] + ng[2] + 18)

f32_mul(f, g) ==
    IF IsNaN(f) THEN quiet(f)
    ELSE IF IsNaN(g) THEN quiet(g)
    ELSE IF IsInf(f) \/ IsInf(g)
         THEN (IF IsZero(f) \/ IsZero(g) THEN Indefinite
               ELSE sign_bits(sign_xor(f, g)) \cup PosInf)
    ELSE IF IsZero(f) \/ IsZero(g) THEN sign_bits(sign_xor(f, g))
    ELSE mul_normal(sign_xor(f, g), normalized(f), normalized(g))

\* n quotient bits of r / d by long division, then the remainder (r < 2 * d)
RECURSIVE div_bits(_, _, _, _)
div_bits(r, d, n, acc) ==
    IF n = 0 THEN <<acc, r>>
    ELSE IF r >= d THEN div_bits((r - d) * 2, d, n - 1, acc * 2 + 1)
    ELSE div_bits(r * 2, d, n - 1, acc * 2)

\* qr the quotient bits and the remainder
div_round(sign, qr, q) == round_f32(sign, qr[1], q, qr[2] # 0)

div_normal(sign, nf, ng) ==
    div_round(sign, div_bits(nf[1], ng[1], 28, 0), nf[2] - ng[2] - 27)

f32_div(f, g) ==
    IF IsNaN(f) THEN quiet(f)
    ELSE IF IsNaN(g) THEN quiet(g)
    ELSE IF IsInf(f) THEN (IF IsInf(g) THEN Indefinite ELSE sign_bits(sign_xor(f, g)) \cup PosInf)
    ELSE IF IsInf(g) THEN sign_bits(sign_xor(f, g))
    ELSE IF IsZero(g) THEN (IF IsZero(f) THEN Indefinite ELSE sign_bits(sign_xor(f, g)) \cup PosInf)
    ELSE IF IsZero(f) THEN sign_bits(sign_xor(f, g))
    ELSE div_normal(sign_xor(f, g), normalized(f), normalized(g))

(* ---- bitwise instructions on one lane ---- *)
lane_and(f, g) == f \cap g
lane_or(f, g) == f \cup g
\* (NOT f) AND g
lane_andnot(f, g) == g \ f

(* ---- intrinsics ---- *)
\* _mm_set_ps in place of _mm_setr_ps: the first argument lands in lane 3
_mm_setr_ps_reversed(a, b, c, d) == <<d, c, b, a>>
_mm_setr_ps(a, b, c, d) == <<a, b, c, d>>
_mm_set1_ps(a) == <<a, a, a, a>>
_mm_set_ss(a) == <<a, PosZero, PosZero, PosZero>>
_mm_and_ps(a, b) == <<lane_and(a[1], b[1]), lane_and(a[2], b[2]), lane_and(a[3], b[3]), lane_and(a[4], b[4])>>
_mm_or_ps(a, b) == <<lane_or(a[1], b[1]), lane_or(a[2], b[2]), lane_or(a[3], b[3]), lane_or(a[4], b[4])>>
\* a AND (NOT b): the complement taken of the second operand
_mm_andnot_ps_second(a, b) ==
    <<lane_andnot(b[1], a[1]), lane_andnot(b[2], a[2]), lane_andnot(b[3], a[3]), lane_andnot(b[4], a[4])>>
_mm_andnot_ps(a, b) ==
    <<lane_andnot(a[1], b[1]), lane_andnot(a[2], b[2]), lane_andnot(a[3], b[3]), lane_andnot(a[4], b[4])>>
_mm_blendv_ps(a, b, mask) == [i \in 1..LEN |-> IF SignBit \in mask[i] THEN b[i] ELSE a[i]]
_mm_cmpeq_ps(a, b) == [i \in 1..LEN |-> IF f32_eq(a[i], b[i]) THEN i32_bits(-1) ELSE PosZero]
_mm_xor_ps(a, b) == <<lane_xor(a[1], b[1]), lane_xor(a[2], b[2]), lane_xor(a[3], b[3]), lane_xor(a[4], b[4])>>
_mm_set1_epi32(a) == <<i32_bits(a), i32_bits(a), i32_bits(a), i32_bits(a)>>
\* _mm_set_epi32 in place of _mm_setr_epi32: the first argument lands in lane 3
_mm_setr_epi32_reversed(e0, e1, e2, e3) == <<i32_bits(e3), i32_bits(e2), i32_bits(e1), i32_bits(e0)>>
_mm_setr_epi32(e0, e1, e2, e3) == <<i32_bits(e0), i32_bits(e1), i32_bits(e2), i32_bits(e3)>>
\* a reinterpretation of the 128 bits, no conversion
_mm_castsi128_ps(a) == a
_mm_add_ps(a, b) == <<f32_add(a[1], b[1]), f32_add(a[2], b[2]), f32_add(a[3], b[3]), f32_add(a[4], b[4])>>
_mm_sub_ps(a, b) == <<f32_sub(a[1], b[1]), f32_sub(a[2], b[2]), f32_sub(a[3], b[3]), f32_sub(a[4], b[4])>>
_mm_mul_ps(a, b) == <<f32_mul(a[1], b[1]), f32_mul(a[2], b[2]), f32_mul(a[3], b[3]), f32_mul(a[4], b[4])>>
_mm_div_ps(a, b) == <<f32_div(a[1], b[1]), f32_div(a[2], b[2]), f32_div(a[3], b[3]), f32_div(a[4], b[4])>>
\* lane 0 is the sum, lanes 1..3 are those of a
_mm_add_ss(a, b) == <<f32_add(a[1], b[1]), a[2], a[3], a[4]>>
\* sums of adjacent pairs: those of a in lanes 0 and 1, those of b in 2 and 3
_mm_hadd_ps(a, b) == <<f32_add(a[1], a[2]), f32_add(a[3], a[4]), f32_add(b[1], b[2]), f32_add(b[3], b[4])>>
\* _mm_movelh_ps in place of _mm_movehl_ps: the low halves, a's first
_mm_movelh_ps(a, b) == <<a[1], a[2], b[1], b[2]>>
\* the high half of b in lanes 0 and 1, the high half of a in lanes 2 and 3
_mm_movehl_ps(a, b) == <<b[3], b[4], a[3], a[4]>>
\* two lanes of a, then two lanes of b, each picked by two bits of imm8
_mm_shuffle_ps(a, b, imm8) ==
    <<a[(imm8 % 4) + 1], a[((imm8 \div 4) % 4) + 1],
      b[((imm8 \div 16) % 4) + 1], b[((imm8 \div 64) % 4) + 1]>>
_mm_cvtss_f32(a) == a[1]
_mm_movemask_ps(a) == sign_of(a[1]) + 2 * sign_of(a[2]) + 4 * sign_of(a[3]) + 8 * sign_of(a[4])

\* imm8: bits 7..6 pick the lane of b, bits 5..4 the lane of a it replaces,
\* bits 3..0 the lanes that are zeroed afterwards
_mm_insert_ps(a, b, imm8) ==
    LET count_s == (imm8 \div 64) % 4
        count_d == (imm8 \div 16) % 4
        zmask == imm8 % 16
        tmp == [i \in 1..LEN |-> IF i = count_d + 1 THEN b[count_s + 1] ELSE a[i]]
    IN  [i \in 1..LEN |-> IF (i - 1) \in bits_of(zmask, 0) THEN PosZero ELSE tmp[i]]

\* four consecutive elements of mem starting at element offset off
_mm_loadu_ps(mem, off) == <<mem[off + 1], mem[off + 2], mem[off + 3], mem[off + 4]>>
_mm_load_ps(mem, off) == _mm_loadu_ps(mem, off)
_mm_load_ss(mem, off) == <<mem[off + 1], PosZero, PosZero, PosZero>>

\* _mm_storer_ps in place of _mm_storeu_ps: the lanes land in reverse order
_mm_storer_ps(mem, a) == [i \in 1..Len(mem) |-> IF i <= LEN THEN a[LEN + 1 - i] ELSE mem[i]]

\* mem with its first four elements replaced by the lanes of a
_mm_storeu_ps(mem, a) == [i \in 1..Len(mem) |-> IF i <= LEN THEN a[i] ELSE mem[i]]
_mm_store_ps(mem, a) == _mm_storeu_ps(mem, a)
_mm_stream_ps(mem, a) == _mm_storeu_ps(mem, a)

(* ---- results of a call ---- *)
Ok(v) == [status |-> "ok", msg |-> "", val |-> v]
Panic(m) == [status |-> "panic", msg |-> m, val |-> <<>>]
Some(v) == [status |-> "some", msg |-> "", val |-> <<v>>]
None == [status |-> "none", msg |-> "", val |-> <<>>]

(* ---- Vec4f ---- *)
\* #[cfg(target_feature = "sse4.1")]: one variable blend
selectf_sse41(s, a, b) == _mm_blendv_ps(b, a, s)

\* #[cfg(not(target_feature = "sse4.1"))]: three bitwise instructions
selectf_sse2(s, a, b) == _mm_or_ps(_mm_and_ps(s, a), _mm_andnot_ps(s, b))

\* the two data operands exchanged
selectf_swapped(s, a, b) ==
    IF sse41 THEN _mm_blendv_ps(a, b, s)
    ELSE _mm_or_ps(_mm_and_ps(s, b), _mm_andnot_ps(s, a))

selectf(s, a, b) ==
    IF sse41 THEN selectf_sse41(s, a, b)
    ELSE selectf_sse2(s, a, b)

new(a, b, c, d) == _mm_setr_ps(a, b, c, d)

\* _mm_set_ss in place of _mm_set1_ps: only lane 0 receives the value
from_scalar_low(value) == _mm_set_ss(value)

from_scalar(value) == _mm_set1_ps(value)

default == from_scalar(PosZero)

\* index > 4 in place of index > 3
insert_off_by_one(self, index, value) ==
    IF index > 4 THEN Panic("Index out of bounds")
    ELSE IF sse41 THEN Ok(_mm_insert_ps(self, _mm_set_ss(value), index * 16))
    ELSE LET broad == _mm_set1_ps(value)
             mask == _mm_loadu_ps(<<i32_bits(0), i32_bits(0), i32_bits(0), i32_bits(0),
                                    i32_bits(-1), i32_bits(0), i32_bits(0), i32_bits(0)>>, 4 - index)
         IN  Ok(selectf(mask, broad, self))

\* let maskl: [i32; 8] = [0, 0, 0, 0, -1, 0, 0, 0]
insert_maskl ==
    <<i32_bits(0), i32_bits(0), i32_bits(0), i32_bits(0),
      i32_bits(-1), i32_bits(0), i32_bits(0), i32_bits(0)>>

insert(self, index, value) ==
    IF index > 3 THEN Panic("Index out of bounds")
    ELSE IF sse41 THEN Ok(_mm_insert_ps(self, _mm_set_ss(value), index * 16))
    ELSE LET broad == _mm_set1_ps(value)
             mask == _mm_loadu_ps(insert_maskl, 4 - index)
         IN  Ok(selectf(mask, broad, self))

get_unchecked(self, index) == self[index + 1]

get(self, index) ==
    IF index > 3 THEN None
    ELSE Some(get_unchecked(self, index))

index_op(self, index) ==
    IF index > 3 THEN Panic("Index out of bounds")
    ELSE Ok(<<get_unchecked(self, index)>>)

\* zero lanes of the mask written i32::MIN: the cut lanes keep their sign
cutoff_maskl_keeps_sign ==
    <<i32_bits(-1), i32_bits(-1), i32_bits(-1), i32_bits(-1),
      i32_bits(I32Min), i32_bits(I32Min), i32_bits(I32Min), i32_bits(I32Min)>>

\* let maskl: [i32; 8] = [-1, -1, -1, -1, 0, 0, 0, 0]
cutoff_maskl ==
    <<i32_bits(-1), i32_bits(-1), i32_bits(-1), i32_bits(-1),
      i32_bits(0), i32_bits(0), i32_bits(0), i32_bits(0)>>

\* _mm_or_ps in place of _mm_and_ps
cutoff_with_or(self, size) ==
    IF size >= 4 THEN self
    ELSE LET mask == _mm_loadu_ps(cutoff_maskl, 4 - size)
         IN  _mm_or_ps(self, mask)

cutoff(self, size) ==
    IF size >= 4 THEN self
    ELSE LET mask == _mm_loadu_ps(cutoff_maskl, 4 - size)
         IN  _mm_and_ps(self, mask)

\* comparison != 0 in place of comparison == 0x0F: one equal lane is enough
eq_any_lane(self, other) == _mm_movemask_ps(_mm_cmpeq_ps(self, other)) # 0

eq(self, other) == _mm_movemask_ps(_mm_cmpeq_ps(self, other)) = 15

(* ---- sign operations ---- *)
\* _mm_or_ps in place of _mm_xor_ps: the sign bit is set, not flipped
neg_with_or(self) == _mm_or_ps(self, _mm_castsi128_ps(_mm_set1_epi32(I32Min)))

neg(self) == _mm_xor_ps(self, _mm_castsi128_ps(_mm_set1_epi32(I32Min)))

\* i32::MIN in place of i32::MAX: only the sign bit survives
abs_with_min(self) == _mm_and_ps(self, _mm_castsi128_ps(_mm_set1_epi32(I32Min)))

abs(self) == _mm_and_ps(self, _mm_castsi128_ps(_mm_set1_epi32(I32Max)))

mask_helper(i) == IF i THEN I32Min ELSE 0

change_sign(I0, I1, I2, I3, self) ==
    IF ~(I0 \/ I1 \/ I2 \/ I3) THEN self
    ELSE LET mask == _mm_setr_epi32(mask_helper(I0), mask_helper(I1),
                                    mask_helper(I2), mask_helper(I3))
         IN  _mm_xor_ps(self, _mm_castsi128_ps(mask))

bitand(self, other) == _mm_and_ps(self, other)
bitor(self, other) == _mm_or_ps(self, other)
bitxor(self, other) == _mm_xor_ps(self, other)

bitand_assign(self, other) == _mm_and_ps(self, other)
bitor_assign(self, other) == _mm_or_ps(self, other)
bitxor_assign(self, other) == _mm_xor_ps(self, other)

(* ---- arithmetic operators; an assign form is given by the new self ---- *)
add(self, other) == _mm_add_ps(self, other)
add_assign(self, other) == _mm_add_ps(self, other)
sub(self, other) == _mm_sub_ps(self, other)
\* _mm_add_ps in place of _mm_sub_ps
sub_assign_adds(self, other) == _mm_add_ps(self, other)
sub_assign(self, other) == _mm_sub_ps(self, other)
mul(self, other) == _mm_mul_ps(self, other)
mul_assign(self, other) == _mm_mul_ps(self, other)
div(self, other) == _mm_div_ps(self, other)
div_assign(self, other) == _mm_div_ps(self, other)

\* f32::from_bits(0x7FC00000 | (0x100 & 0x003FFFFF)), broadcast
nan_vec == from_scalar(bits_of(2143289344, 0) \cup (bits_of(256, 0) \cap bits_of(4194303, 0)))

\* the loop without power *= power
RECURSIVE pow_loop_unsquared(_, _, _)
pow_loop_unsquared(answer, power, n) ==
    LET multiplied == IF n % 2 > 0 THEN mul_assign(answer, power) ELSE answer
        halved == n \div 2
    IN  IF halved = 0 THEN multiplied
        ELSE pow_loop_unsquared(multiplied, power, halved)

\* the loop of pow entered with answer, power and n >= 0
RECURSIVE pow_loop(_, _, _)
pow_loop(answer, power, n) ==
    LET multiplied == IF n % 2 > 0 THEN mul_assign(answer, power) ELSE answer
        halved == n \div 2
    IN  IF halved = 0 THEN multiplied
        ELSE pow_loop(multiplied, mul_assign(power, power), halved)

\* a negative n is raised as if it were -n: the reciprocal is left out
RECURSIVE pow_without_reciprocal(_, _)
pow_without_reciprocal(self, n) ==
    IF n < 0
    THEN IF n = I32Min THEN nan_vec
         ELSE pow_without_reciprocal(self, -n)
    ELSE pow_loop(from_scalar(One), self, n)

RECURSIVE pow(_, _)
pow(self, n) ==
    IF n < 0
    THEN IF n = I32Min THEN nan_vec
         ELSE div(from_scalar(One), pow(self, -n))
    ELSE pow_loop(from_scalar(One), self, n)

horizontal_add(self) ==
    IF sse3
    THEN LET t1 == _mm_hadd_ps(self, self)
             t2 == _mm_hadd_ps(t1, t1)
         IN  _mm_cvtss_f32(t2)
    ELSE LET t1 == _mm_movehl_ps(self, self)
             t2 == _mm_add_ps(self, t1)
             t3 == _mm_shuffle_ps(t2, t2, 1)
             t4 == _mm_add_ss(t2, t3)
         IN  _mm_cvtss_f32(t4)

\* a | (b & -0.0) in place of a ^ (b & -0.0)
sign_combine_with_or(a, b) == bitor(a, bitand(b, from_scalar(NegZero)))

sign_combine(a, b) == bitxor(a, bitand(b, from_scalar(NegZero)))

(* ---- memory movement; a buffer is its elements and its start address ---- *)
short_store_msg == "Buffer len not enough to store Vec128f"
short_load_msg == "Buffer len not enough to load verctor"
misaligned_msg == "Buffer address is not aligned by 16"

\* & 0x7 in place of & 0xf
misaligned_mod8(addr) == addr % 8 > 0

\* (buffer.as_ptr() as usize) & 0xf > 0
misaligned(addr) == addr % 16 > 0

\* a memory operation is given by its outcome and by val, what it leaves in
\* the thing it writes (the buffer of a store, self of a load); a panic
\* raised before the write leaves it as it was
Unwind(m, kept) == [status |-> "panic", msg |-> m, val |-> kept]

\* the length tested after the write: a short buffer is filled, then the panic
store_late_check(self, buffer) ==
    IF Len(buffer) < 4 THEN Unwind(short_store_msg, [i \in 1..Len(buffer) |-> self[i]])
    ELSE Ok(_mm_storeu_ps(buffer, self))

store(self, buffer) ==
    IF Len(buffer) < 4 THEN Unwind(short_store_msg, buffer)
    ELSE Ok(_mm_storeu_ps(buffer, self))

store_aligned(self, buffer, addr) ==
    IF Len(buffer) < 4 THEN Unwind(short_store_msg, buffer)
    ELSE IF misaligned(addr) THEN Unwind(misaligned_msg, buffer)
    ELSE Ok(_mm_store_ps(buffer, self))

store_aligned_nocache(self, buffer, addr) ==
    IF Len(buffer) < 4 THEN Unwind(short_store_msg, buffer)
    ELSE IF misaligned(addr) THEN Unwind(misaligned_msg, buffer)
    ELSE Ok(_mm_stream_ps(buffer, self))

\* slice::copy_from_slice: the two lengths must agree
copy_from_slice(dst, from) ==
    IF Len(dst) # Len(from) THEN Unwind("source slice length does not match destination", dst)
    ELSE Ok(from)

\* copy_from_slice(&values) in place of copy_from_slice(&values[..buffer.len()])
store_partial_whole(self, buffer) ==
    IF Len(buffer) >= 4 THEN store(self, buffer)
    ELSE LET values == store(self, <<PosZero, PosZero, PosZero, PosZero>>)
         IN  IF values.status # "ok" THEN Unwind(values.msg, buffer)
             ELSE copy_from_slice(buffer, values.val)

store_partial(self, buffer) ==
    IF Len(buffer) >= 4 THEN store(self, buffer)
    ELSE LET values == store(self, <<PosZero, PosZero, PosZero, PosZero>>)
         IN  IF values.status # "ok" THEN Unwind(values.msg, buffer)
             ELSE copy_from_slice(buffer, SubSeq(values.val, 1, Len(buffer)))

load(self, buffer) ==
    IF Len(buffer) < 4 THEN Unwind(short_load_msg, self)
    ELSE Ok(_mm_loadu_ps(buffer, 0))

load_aligned(self, buffer, addr) ==
    IF Len(buffer) < 4 THEN Unwind(short_store_msg, self)
    ELSE IF misaligned(addr) THEN Unwind(misaligned_msg, self)
    ELSE Ok(_mm_load_ps(buffer, 0))

\* a buffer longer than 4 leaves self as it was
load_partial_keep(self, buffer) ==
    CASE Len(buffer) = 0 -> Ok(default)
      [] Len(buffer) = 1 -> Ok(_mm_load_ss(buffer, 0))
      [] Len(buffer) = 2 -> Ok(_mm_setr_ps(buffer[1], buffer[2], PosZero, PosZero))
      [] Len(buffer) = 3 -> Ok(_mm_setr_ps(buffer[1], buffer[2], buffer[3], PosZero))
      [] Len(buffer) = 4 -> load(self, buffer)
      [] OTHER -> Ok(self)

load_partial(self, buffer) ==
    CASE Len(buffer) = 0 -> Ok(default)
      [] Len(buffer) = 1 -> Ok(_mm_load_ss(buffer, 0))
      [] Len(buffer) = 2 -> Ok(_mm_setr_ps(buffer[1], buffer[2], PosZero, PosZero))
      [] Len(buffer) = 3 -> Ok(_mm_setr_ps(buffer[1], buffer[2], buffer[3], PosZero))
      [] OTHER -> load(self, buffer)

\* From<&[f32]>: a panic returns no value at all
from_slice(value) ==
    IF Len(value) < 4 THEN Panic("Slice size is not enough to construct a vector")
    ELSE Ok(_mm_loadu_ps(value, 0))

\* Vec4f == [f32; 4]: the array is read as a slice and becomes a Vec4f
eq_array(self, other) ==
    LET value == from_slice(other)
    IN  IF value.status = "ok" THEN Ok(<<eq(self, value.val)>>) ELSE value

(* ---- the record of the most recent call ---- *)
Call(op, idx, args, res) ==
    [op |-> op, idx |-> idx, args |-> args,
     status |-> res.status, msg |-> res.msg, ret |-> res.val]

NoWords == <<>>

\* no second operand, and the build without the sse3 feature
OpsIdle ==
    /\ rhs = NoWords
    /\ sse3 = FALSE

\* no selector register
SelectIdle == selMask = NoWords

\* no call of pow in progress
PowIdle == stack = <<>>

(* ---- lane operations: construction, insert, get, subscript, cutoff ---- *)
MemIdle ==
    /\ src = NoWords
    /\ srcAddr = 0
    /\ out = NoWords
    /\ outAddr = 0
    /\ origin = "none"

\* a value is built by default() or by new(a, b, c, d)
Init ==
    /\ \/ /\ xmm = default
          /\ last = Call("default", 0, <<>>, Ok(default))
          /\ made = <<>>
          /\ recent = <<<<>>, <<>>, <<>>, <<>>>>
       \/ \E a, b, c, d \in Floats :
            /\ xmm = new(a, b, c, d)
            /\ last = Call("new", 0, <<a, b, c, d>>, Ok(new(a, b, c, d)))
            /\ made = <<a, b, c, d>>
            /\ recent = <<>>
    /\ sse41 \in BOOLEAN
    /\ MemIdle
    /\ OpsIdle
    /\ SelectIdle
    /\ PowIdle

MemFrame == UNCHANGED <<sse41, src, srcAddr, out, outAddr, origin, rhs, sse3, selMask, stack>>

\* a = a.insert(index, value)
Insert ==
    \E index \in 0..MaxIndex, value \in Floats :
        LET r == insert(xmm, index, value)
        IN  /\ last' = Call("insert", index, <<value>>, r)
            /\ IF r.status = "ok"
               THEN /\ xmm' = r.val
                    /\ made' = <<>>
                    /\ recent' = IF recent = <<>> THEN <<>>
                                 ELSE [recent EXCEPT ![index + 1] = <<value>>]
               ELSE UNCHANGED <<xmm, made, recent>>
            /\ MemFrame

Get ==
    \E index \in 0..MaxIndex :
        /\ last' = Call("get", index, <<>>, get(xmm, index))
        /\ UNCHANGED <<xmm, made, recent>>
        /\ MemFrame

\* the caller must pass index < 4; past the register the read is undefined:
\* it yields whatever lies there, or the access faults
GetUnchecked ==
    \E index \in 0..MaxIndex :
        /\ IF index < LEN
           THEN last' = Call("get_unchecked", index, <<>>, Ok(<<get_unchecked(xmm, index)>>))
           ELSE \/ \E f \in Floats : last' = Call("get_unchecked", index, <<>>, Ok(<<f>>))
                \/ last' = Call("get_unchecked", index, <<>>, Panic("fault"))
        /\ UNCHANGED <<xmm, made, recent>>
        /\ MemFrame

Index ==
    \E index \in 0..MaxIndex :
        /\ last' = Call("index", index, <<>>, index_op(xmm, index))
        /\ UNCHANGED <<xmm, made, recent>>
        /\ MemFrame

\* cutoff takes self by value and returns the copy; self stays
Cutoff ==
    \E size \in 0..MaxIndex :
        /\ last' = Call("cutoff", size, <<>>, Ok(cutoff(xmm, size)))
        /\ UNCHANGED <<xmm, made, recent>>
        /\ MemFrame

Next ==
    \/ Insert
    \/ Get
    \/ GetUnchecked
    \/ Index
    \/ Cutoff

Spec == Init /\ [][Next]_vars

(* ---- properties of the lane operations (checked under Spec) ---- *)
Lanes == 0..(LEN - 1)

ReadOps == {"get", "get_unchecked", "index"}

\* C1: new(a, b, c, d) puts a, b, c, d in lanes 0..3: every get(i), i < 4,
\* of a value built by new yields the i-th argument, and get, get_unchecked
\* and the subscript read the same lane for every i < 4.
C1_LaneOrder ==
    /\ made # <<>> =>
          /\ \A i \in Lanes : get(xmm, i) = Some(made[i + 1])
          /\ last.op \in ReadOps /\ last.idx < LEN => last.ret = <<made[last.idx + 1]>>
    /\ \A i \in Lanes :
          /\ get(xmm, i).status = "some"
          /\ index_op(xmm, i).status = "ok"
          /\ get(xmm, i).val = <<get_unchecked(xmm, i)>>
          /\ index_op(xmm, i).val = <<get_unchecked(xmm, i)>>

C1_Witness ==
    /\ made # <<>>
    /\ made[1] = NegTwoHalf
    /\ made[4] = QNaN
    /\ last.op = "get"
    /\ last.idx = 3
    /\ last.ret = <<QNaN>>

\* C5: cutoff(n) returns lanes i < n bit-identical to self and lanes i >= n
\* with all 32 bits zero, for n < 4; for n >= 4 it returns self.
C5_Cutoff ==
    last.op = "cutoff" =>
        /\ last.status = "ok"
        /\ IF last.idx >= LEN THEN last.ret = xmm
           ELSE \A i \in Lanes :
                    last.ret[i + 1] = IF i < last.idx THEN xmm[i + 1] ELSE PosZero

C5_Witness ==
    /\ last.op = "cutoff"
    /\ last.idx = 2
    /\ xmm = <<QNaN, NegZero, NegZero, NegTwoHalf>>
    /\ last.ret = <<QNaN, NegZero, PosZero, PosZero>>

\* the lanes of v below m hold no NaN
NoNaNBelow(v, m) == \A i \in Lanes : i < m => ~IsNaN(v[i + 1])

\* C6 as stated: for 0 <= m <= n <= 4, v.cutoff(m) == v.cutoff(n).cutoff(m)
\* under the == of Vec4f, for every v (here n is the size of the cutoff just
\* taken and last.ret its result).
C6_MonotoneForAll ==
    last.op = "cutoff" /\ last.idx <= LEN =>
        \A m \in 0..last.idx : eq(cutoff(xmm, m), cutoff(last.ret, m))

\* C6 amended: for 0 <= m <= n <= 4, v.cutoff(m) and v.cutoff(n).cutoff(m) are
\* bit-identical in every lane, and compare equal under the == of Vec4f
\* whenever none of the lanes 0..m-1 of v is NaN.
C6_Monotone ==
    last.op = "cutoff" /\ last.idx <= LEN =>
        \A m \in 0..last.idx :
            /\ cutoff(xmm, m) = cutoff(last.ret, m)
            /\ NoNaNBelow(xmm, m) => eq(cutoff(xmm, m), cutoff(last.ret, m))
            /\ ~NoNaNBelow(xmm, m) => ~eq(cutoff(xmm, m), cutoff(last.ret, m))

C6_Witness ==
    /\ last.op = "cutoff"
    /\ last.idx = 3
    /\ xmm = <<NegTwoHalf, NegZero, QNaN, NegTwoHalf>>
    /\ last.ret = <<NegTwoHalf, NegZero, QNaN, PosZero>>

InsertReturned == last'.op = "insert" /\ last'.status = "ok"

\* C7: insert(i, x), i < 4, returns self with lane i replaced by x and the
\* other three lanes bit-identical, with and without SSE4.1; so a value built
\* by default() holds in each lane the value last inserted there, or +0.0.
C7_Insert ==
    /\ [][InsertReturned =>
            /\ last'.idx < LEN
            /\ \A i \in Lanes :
                   xmm'[i + 1] = IF i = last'.idx THEN last'.args[1] ELSE xmm[i + 1]]_vars
    /\ [](recent # <<>> =>
            \A i \in Lanes :
                xmm[i + 1] = IF recent[i + 1] = <<>> THEN PosZero ELSE recent[i + 1][1])

C7_Witness ==
    /\ ~sse41
    /\ last.op = "insert"
    /\ last.status = "ok"
    /\ last.idx = 2
    /\ recent = <<<<>>, <<QNaN>>, <<NegTwoHalf>>, <<NegZero>>>>
    /\ xmm = <<PosZero, QNaN, NegTwoHalf, NegZero>>

\* C8: for an index i >= 4, insert(i, x) and the subscript v[i] panic with
\* "Index out of bounds", return nothing and leave the value as it was, while
\* get(i) returns None.
C8_OutOfRange ==
    /\ [](last.idx >= LEN =>
            /\ last.op \in {"insert", "index"} =>
                  /\ last.status = "panic"
                  /\ last.msg = "Index out of bounds"
                  /\ last.ret = <<>>
            /\ last.op = "get" => last.status = "none" /\ last.ret = <<>>)
    /\ [][last'.op \in {"insert", "index", "get"} /\ last'.idx >= LEN => xmm' = xmm]_vars

C8_Witness ==
    /\ last.op = "insert"
    /\ last.idx = 4
    /\ last.status = "panic"
    /\ xmm = <<QNaN, NegZero, NegZero, NegTwoHalf>>

(* ---- memory operations: one source buffer, one destination buffer ---- *)
MemFloats == {NegTwoHalf, QNaN}
Addrs == {0, 4, 8, 16}

RECURSIVE BuffersOfLen(_)
BuffersOfLen(n) ==
    IF n = 0 THEN {<<>>}
    ELSE {Append(b, f) : b \in BuffersOfLen(n - 1), f \in MemFloats}

Buffers == UNION {BuffersOfLen(n) : n \in 0..MaxLen}

\* the destination starts filled with 1.0, which no register lane holds
Fresh(n) == [i \in 1..n |-> One]

LaneIdle ==
    /\ made = <<>>
    /\ recent = <<>>
    /\ sse41 = FALSE

InitMem ==
    /\ xmm \in {default, new(NegTwoHalf, NegZero, QNaN, PosZero)}
    /\ last = Call("init", 0, <<>>, Ok(<<>>))
    /\ origin = "init"
    /\ src \in Buffers
    /\ srcAddr \in Addrs
    /\ out \in {Fresh(n) : n \in 0..MaxLen}
    /\ outAddr \in Addrs
    /\ LaneIdle
    /\ OpsIdle
    /\ SelectIdle
    /\ PowIdle

LaneFrame == UNCHANGED <<made, recent, sse41, src, srcAddr, outAddr, rhs, sse3, selMask, stack>>

\* self is what the load leaves in it
Loaded(op, r) ==
    /\ last' = Call(op, 0, <<>>, [r EXCEPT !.val = <<>>])
    /\ xmm' = r.val
    /\ origin' = IF r.status = "ok" THEN op ELSE origin
    /\ UNCHANGED out
    /\ LaneFrame

\* the destination is what the store leaves in it
Stored(op, r) ==
    /\ last' = Call(op, 0, <<>>, [r EXCEPT !.val = <<>>])
    /\ out' = r.val
    /\ UNCHANGED <<xmm, origin>>
    /\ LaneFrame

Load == Loaded("load", load(xmm, src))

LoadAligned == Loaded("load_aligned", load_aligned(xmm, src, srcAddr))

LoadPartial == Loaded("load_partial", load_partial(xmm, src))

\* v = Vec4f::from(slice): v is assigned only when from returns
FromSlice ==
    LET r == from_slice(src)
    IN  /\ last' = Call("from", 0, <<>>, [r EXCEPT !.val = <<>>])
        /\ xmm' = IF r.status = "ok" THEN r.val ELSE xmm
        /\ origin' = IF r.status = "ok" THEN "from" ELSE origin
        /\ UNCHANGED out
        /\ LaneFrame

Store == Stored("store", store(xmm, out))

StoreAligned == Stored("store_aligned", store_aligned(xmm, out, outAddr))

StoreAlignedNocache == Stored("store_aligned_nocache", store_aligned_nocache(xmm, out, outAddr))

StorePartial == Stored("store_partial", store_partial(xmm, out))

NextMem ==
    \/ Load
    \/ LoadAligned
    \/ LoadPartial
    \/ FromSlice
    \/ Store
    \/ StoreAligned
    \/ StoreAlignedNocache
    \/ StorePartial

SpecMem == InitMem /\ [][NextMem]_vars

(* ---- properties of the memory operations (checked under SpecMem) ---- *)
FullStores == {"store", "store_aligned", "store_aligned_nocache"}

FullLoads == {"load", "load_aligned", "from"}

AlignedStores == {"store_aligned", "store_aligned_nocache"}

FirstFour(buffer) == SubSeq(buffer, 1, LEN)

Min(a, b) == IF a < b THEN a ELSE b

\* C2: a buffer of at least 4 elements loaded by load (or by load_aligned when
\* it is 16-byte aligned) and then stored by store, store_aligned or
\* store_aligned_nocache leaves the first four elements of the destination
\* bit-identical to the first four of the source; on an aligned buffer of at
\* least 4 elements the aligned variants leave what the unaligned ones leave.
C2_RoundTrip ==
    /\ origin \in {"load", "load_aligned"} /\ last.op \in FullStores /\ last.status = "ok" =>
          FirstFour(out) = FirstFour(src)
    /\ Len(src) >= LEN /\ srcAddr % 16 = 0 =>
          load_aligned(xmm, src, srcAddr) = load(xmm, src)
    /\ Len(out) >= LEN /\ outAddr % 16 = 0 =>
          /\ store_aligned(xmm, out, outAddr) = store(xmm, out)
          /\ store_aligned_nocache(xmm, out, outAddr) = store(xmm, out)

C2_Witness ==
    /\ origin = "load_aligned"
    /\ last.op = "store_aligned_nocache"
    /\ last.status = "ok"
    /\ src = <<QNaN, NegTwoHalf, NegTwoHalf, QNaN, QNaN>>
    /\ out = <<QNaN, NegTwoHalf, NegTwoHalf, QNaN, One>>

\* C3: load_partial(buf) always returns, and leaves in lanes 0..k-1 the elements
\* buf[0..k-1] and in lanes k..3 the value +0.0, k = min(4, len(buf)), whatever
\* self held before; a buffer longer than 4 loads its first 4 elements.
C3_LoadPartial ==
    last.op = "load_partial" =>
        /\ last.status = "ok"
        /\ \A i \in 1..LEN :
               xmm[i] = IF i <= Min(LEN, Len(src)) THEN src[i] ELSE PosZero

C3_Witness ==
    /\ last.op = "load_partial"
    /\ src = <<QNaN, NegTwoHalf, NegTwoHalf, NegTwoHalf, QNaN>>
    /\ xmm = <<QNaN, NegTwoHalf, NegTwoHalf, NegTwoHalf>>

\* C4: store_partial(buf) returns for a buffer of any length, writes lanes
\* 0..k-1 of self to buf[0..k-1], k = min(4, len(buf)), and leaves every element
\* of index >= k, and the length, as they were.
C4_StorePartial ==
    [][last'.op = "store_partial" =>
          /\ last'.status = "ok"
          /\ Len(out') = Len(out)
          /\ \A i \in 1..Len(out) :
                 out'[i] = IF i <= Min(LEN, Len(out)) THEN xmm[i] ELSE out[i]]_vars

C4_Witness ==
    /\ last.op = "store_partial"
    /\ last.status = "ok"
    /\ out = <<NegTwoHalf, NegZero, QNaN, PosZero, One>>

ShortCall(call) ==
    \/ call.op \in FullLoads /\ Len(src) < LEN
    \/ call.op \in FullStores /\ Len(out) < LEN

\* C9: load, load_aligned, store, store_aligned, store_aligned_nocache and
\* from(slice) panic on a buffer of fewer than 4 elements, and the panic comes
\* before any access: self and the destination buffer are left as they were.
C9_ShortBuffer ==
    /\ [](ShortCall(last) => last.status = "panic")
    /\ [][ShortCall(last') => xmm' = xmm /\ out' = out]_vars

C9_Witness ==
    /\ last.op = "store_aligned"
    /\ last.status = "panic"
    /\ last.msg = short_store_msg
    /\ out = <<One, One, One>>
    /\ xmm = <<NegTwoHalf, NegZero, QNaN, PosZero>>

MisalignedCall(call) ==
    \/ call.op \in AlignedStores /\ Len(out) >= LEN /\ outAddr % 16 # 0
    \/ call.op = "load_aligned" /\ Len(src) >= LEN /\ srcAddr % 16 # 0

\* C10: store_aligned, store_aligned_nocache and load_aligned on a buffer of at
\* least 4 elements whose address is not a multiple of 16 panic with the
\* misalignment message and do not fall back to the unaligned operation: the
\* destination buffer and self are left as they were.
C10_Misaligned ==
    /\ [](MisalignedCall(last) => last.status = "panic" /\ last.msg = misaligned_msg)
    /\ [][MisalignedCall(last') => xmm' = xmm /\ out' = out]_vars

C10_Witness ==
    /\ last.op = "load_aligned"
    /\ last.status = "panic"
    /\ last.msg = misaligned_msg
    /\ srcAddr = 8
    /\ src = <<QNaN, NegTwoHalf, NegTwoHalf, QNaN>>
    /\ xmm = <<NegTwoHalf, NegZero, QNaN, PosZero>>

(* ---- operators: one call on a pair of constructed values ---- *)
OpFloats == {PosZero, NegZero, One, NegTwoHalf, PosInf, QNaN}

\* self and the second operand, built by new: the four lanes pair the two
\* values of self with the two values of rhs in the four possible ways, or rhs
\* is a copy of self
InitOps ==
    /\ \E x, y, u, v \in OpFloats :
         /\ xmm = new(x, y, y, x)
         /\ rhs \in {new(u, v, u, v), xmm}
    /\ last = Call("init", 0, <<>>, Ok(<<>>))
    /\ sse3 \in BOOLEAN
    /\ SelectIdle
    /\ PowIdle
    /\ made = <<>> /\ recent = <<>> /\ sse41 = FALSE
    /\ MemIdle

Constructed == last.op = "init"

OpsFrame == UNCHANGED <<made, recent, sse41, src, srcAddr, out, outAddr, origin, rhs, sse3, selMask, stack>>

\* an operator that returns a value and leaves self as it was
Returned(op, args, res) ==
    /\ Constructed
    /\ last' = Call(op, 0, args, res)
    /\ UNCHANGED xmm
    /\ OpsFrame

\* a == b
Eq == Returned("eq", <<>>, Ok(<<eq(xmm, rhs)>>))

\* a == [b0, b1, b2, b3]
EqArray == Returned("eq_array", <<>>, eq_array(xmm, rhs))

\* -a
Neg == Returned("neg", <<>>, Ok(neg(xmm)))

Abs == Returned("abs", <<>>, Ok(abs(xmm)))

ChangeSign ==
    \E I0, I1, I2, I3 \in BOOLEAN :
        Returned("change_sign", <<I0, I1, I2, I3>>, Ok(change_sign(I0, I1, I2, I3, xmm)))

SignCombine == Returned("sign_combine", <<>>, Ok(sign_combine(xmm, rhs)))

FromScalar == \E value \in OpFloats : Returned("from_scalar", <<value>>, Ok(from_scalar(value)))

Default == Returned("default", <<>>, Ok(default))

NextOps ==
    \/ Eq \/ EqArray \/ Neg \/ Abs \/ ChangeSign \/ SignCombine
    \/ FromScalar \/ Default

SpecOps == InitOps /\ [][NextOps]_vars

Flipped(f) == IF SignBit \in f THEN f \ {SignBit} ELSE f \cup {SignBit}

HasNaN(v) == \E i \in 1..LEN : IsNaN(v[i])

\* neither NaN nor an infinity
IsFinite(f) == ~(ExpField \subseteq f)

\* C11: a == b is true exactly when every one of the four lane pairs is equal
\* as floats: a vector with a NaN lane is not equal to itself, two vectors of
\* zeros are equal whatever the signs of the zeros; a == [array] answers as
\* a == the Vec4f built from the array does
C11_Equality ==
    /\ last.op = "eq" =>
         /\ last.ret[1] = (\A i \in 1..LEN : f32_eq(xmm[i], rhs[i]))
         /\ (rhs = xmm /\ HasNaN(xmm)) => ~last.ret[1]
         /\ (\A i \in 1..LEN : IsZero(xmm[i]) /\ IsZero(rhs[i])) => last.ret[1]
    /\ last.op = "eq_array" =>
         /\ last.status = "ok"
         /\ last.ret[1] = eq(xmm, new(rhs[1], rhs[2], rhs[3], rhs[4]))

\* an array of zeros of other signs than the vector's compares equal to it
C11_Witness ==
    /\ last.op = "eq_array"
    /\ last.ret = <<TRUE>>
    /\ xmm = <<NegZero, PosZero, PosZero, NegZero>>
    /\ rhs = <<PosZero, NegZero, PosZero, NegZero>>

\* C12: -v differs from v in the sign bit of every lane and in no other bit,
\* so a lane +0.0 becomes -0.0; and when every lane of v is finite, -(-v) == v
C12_Negation ==
    last.op = "neg" =>
        /\ \A i \in 1..LEN :
             /\ (SignBit \in last.ret[i]) # (SignBit \in xmm[i])
             /\ last.ret[i] \ {SignBit} = xmm[i] \ {SignBit}
             /\ xmm[i] = PosZero => last.ret[i] = NegZero
        /\ (\A i \in 1..LEN : IsFinite(xmm[i])) => eq(neg(last.ret), xmm)

C12_Witness ==
    /\ last.op = "neg"
    /\ xmm = <<PosZero, NegTwoHalf, NegTwoHalf, PosZero>>
    /\ last.ret = <<NegZero, {21, 30}, {21, 30}, NegZero>>

\* C13 as stated: for every v, abs(abs(v)) == abs(v) under the == of Vec4f,
\* abs(v) being v with the sign bit of every lane cleared
C13_IdempotentForAll ==
    last.op = "abs" =>
        /\ \A i \in 1..LEN : last.ret[i] = xmm[i] \ {SignBit}
        /\ eq(abs(last.ret), last.ret)

\* C13 amended: abs(v) is v with the sign bit of every lane cleared, abs(abs(v))
\* and abs(v) are bit-identical, and they compare == exactly when no lane of v
\* is NaN
C13_Idempotent ==
    last.op = "abs" =>
        /\ \A i \in 1..LEN : last.ret[i] = xmm[i] \ {SignBit}
        /\ abs(last.ret) = last.ret
        /\ eq(abs(last.ret), last.ret) <=> ~HasNaN(xmm)

C13_Witness ==
    /\ last.op = "abs"
    /\ xmm = <<NegTwoHalf, QNaN, QNaN, NegTwoHalf>>
    /\ last.ret = <<{21, 30}, QNaN, QNaN, {21, 30}>>

\* C14 as stated: change_sign<B0,B1,B2,B3>(v) is v with the sign bit of lane i
\* flipped when Bi is true, and every other bit of every lane as in v; with
\* four false flags the result == v, with four true flags the result == -v
C14_ChangeSignForAll ==
    last.op = "change_sign" =>
        /\ \A i \in 1..LEN :
             last.ret[i] = IF last.args[i] THEN Flipped(xmm[i]) ELSE xmm[i]
        /\ last.args = <<FALSE, FALSE, FALSE, FALSE>> => eq(last.ret, xmm)
        /\ last.args = <<TRUE, TRUE, TRUE, TRUE>> => eq(last.ret, neg(xmm))

\* C14 amended: the same lane rule; with four false flags the result is
\* bit-identical to v, with four true flags bit-identical to -v, and in both
\* cases the two compare == exactly when no lane of v is NaN
C14_ChangeSign ==
    last.op = "change_sign" =>
        /\ \A i \in 1..LEN :
             last.ret[i] = IF last.args[i] THEN Flipped(xmm[i]) ELSE xmm[i]
        /\ last.args = <<FALSE, FALSE, FALSE, FALSE>> =>
             /\ last.ret = xmm
             /\ eq(last.ret, xmm) <=> ~HasNaN(xmm)
        /\ last.args = <<TRUE, TRUE, TRUE, TRUE>> =>
             /\ last.ret = neg(xmm)
             /\ eq(last.ret, neg(xmm)) <=> ~HasNaN(xmm)

\* every flag true over a vector with NaN lanes
C14_Witness ==
    /\ last.op = "change_sign"
    /\ last.args = <<TRUE, TRUE, TRUE, TRUE>>
    /\ xmm = <<One, QNaN, QNaN, One>>
    /\ last.ret = <<One \cup {SignBit}, QNaN \cup {SignBit}, QNaN \cup {SignBit}, One \cup {SignBit}>>

\* C15: lane i of sign_combine(a, b) is lane i of a with its sign bit flipped
\* when the sign bit of lane i of b is set (-0.0 included), and is lane i of a
\* bit for bit when it is clear
C15_SignCombine ==
    last.op = "sign_combine" =>
        \A i \in 1..LEN :
            last.ret[i] = IF SignBit \in rhs[i] THEN Flipped(xmm[i]) ELSE xmm[i]

\* b has -0.0 in lanes 0 and 2 only, over negative lanes of a
C15_Witness ==
    /\ last.op = "sign_combine"
    /\ xmm = <<NegTwoHalf, NegTwoHalf, NegTwoHalf, NegTwoHalf>>
    /\ rhs = <<NegZero, One, NegZero, One>>
    /\ last.ret = <<{21, 30}, NegTwoHalf, {21, 30}, NegTwoHalf>>

\* C20: the four lanes of from_scalar(x) are x, and default() is
\* from_scalar(+0.0): four lanes of positive zero
C20_Broadcast ==
    /\ last.op = "from_scalar" => \A i \in 1..LEN : last.ret[i] = last.args[1]
    /\ last.op = "default" =>
         /\ last.ret = from_scalar(PosZero)
         /\ \A i \in 1..LEN : last.ret[i] = PosZero

C20_Witness ==
    /\ last.op = "from_scalar"
    /\ last.args = <<NegZero>>
    /\ last.ret = <<NegZero, NegZero, NegZero, NegZero>>

(* ---- arithmetic: one call on a pair of constructed values ---- *)
ArithFloats == {NegZero, NegTwoHalf, Three, OnePointFour, QNaN}

\* the f32 that an integer literal of magnitude below 2^24 denotes
f32_of_int(k) ==
    LET a == IF k < 0 THEN -k ELSE k
        nb == bit_len(a)
    IN  IF k = 0 THEN PosZero
        ELSE (IF k < 0 THEN {SignBit} ELSE {})
             \cup bits_of((125 + nb) * 2^23 + a * 2^(24 - nb), 0)

\* the integer a lane holds, for a lane that is an integer below 2^24 in
\* magnitude
IsSmallInt(f) ==
    \/ IsZero(f)
    /\ f \cap ExpField # {}
    /\ unpack(f)[2] \in -23..0
    /\ unpack(f)[1] % 2^(-unpack(f)[2]) = 0

int_of_f32(f) ==
    IF IsZero(f) THEN 0
    ELSE (IF SignBit \in f THEN -1 ELSE 1) * (unpack(f)[1] \div 2^(-unpack(f)[2]))

vec_of_ints(a, b, c, d) == new(f32_of_int(a), f32_of_int(b), f32_of_int(c), f32_of_int(d))

\* 1.5f32
OneHalf == {22} \cup (23..29)

\* the operand pairs of test_arithmetic, in its order, then the vector it sums
\* and the vector it raises
Samples ==
    {<<default, vec_of_ints(1, -1, 2, 3)>>,
     <<vec_of_ints(1, -1, 2, 3), vec_of_ints(3, -2, 5, -1)>>,
     <<vec_of_ints(3, 2, 10, -3), vec_of_ints(-1, 2, -2, -3)>>,
     <<vec_of_ints(-3, 1, -5, 1), vec_of_ints(1, 2, 1, 2)>>,
     <<vec_of_ints(1, -2, 7, -3), vec_of_ints(-2, 3, -4, 3)>>,
     <<vec_of_ints(2, -1, -2, 4), vec_of_ints(3, -5, 11, -6)>>,
     <<vec_of_ints(6, 5, -22, -24), vec_of_ints(3, -5, -11, -3)>>,
     <<vec_of_ints(2, -1, 2, 8), vec_of_ints(2, -1, 2, 8)>>,
     <<new(f32_of_int(-1), f32_of_int(2), f32_of_int(3), OneHalf),
       new(f32_of_int(-1), f32_of_int(2), f32_of_int(3), OneHalf)>>}

\* exponents given to pow
MaxPow == 4
PowExps == {I32Min} \cup (-MaxPow..MaxPow)

InitArith ==
    /\ \/ \E x, y, u, v \in ArithFloats :
            /\ xmm = new(x, y, y, x)
            /\ rhs = new(u, v, u, v)
       \/ \E pair \in Samples :
            /\ xmm = pair[1]
            /\ rhs = pair[2]
    /\ last = Call("init", 0, <<>>, Ok(<<>>))
    /\ sse3 \in BOOLEAN
    /\ SelectIdle
    /\ PowIdle
    /\ made = <<>> /\ recent = <<>> /\ sse41 = FALSE
    /\ MemIdle

Pow == \E n \in PowExps : Returned("pow", <<n>>, Ok(pow(xmm, n)))

\* a + b, a - b, a * b, a / b, a & b, a | b, a ^ b
Add == Returned("add", <<>>, Ok(add(xmm, rhs)))
Sub == Returned("sub", <<>>, Ok(sub(xmm, rhs)))
Mul == Returned("mul", <<>>, Ok(mul(xmm, rhs)))
Div == Returned("div", <<>>, Ok(div(xmm, rhs)))
BitAnd == Returned("bitand", <<>>, Ok(bitand(xmm, rhs)))
BitOr == Returned("bitor", <<>>, Ok(bitor(xmm, rhs)))
BitXor == Returned("bitxor", <<>>, Ok(bitxor(xmm, rhs)))

\* an assign form: it returns nothing and leaves its result in self
Assigned(op, value) ==
    /\ Constructed
    /\ last' = Call(op, 0, <<>>, Ok(<<>>))
    /\ xmm' = value
    /\ OpsFrame

\* a += b, a -= b, a *= b, a /= b, a &= b, a |= b, a ^= b
AddAssign == Assigned("add_assign", add_assign(xmm, rhs))
SubAssign == Assigned("sub_assign", sub_assign(xmm, rhs))
MulAssign == Assigned("mul_assign", mul_assign(xmm, rhs))
DivAssign == Assigned("div_assign", div_assign(xmm, rhs))
BitAndAssign == Assigned("bitand_assign", bitand_assign(xmm, rhs))
BitOrAssign == Assigned("bitor_assign", bitor_assign(xmm, rhs))
BitXorAssign == Assigned("bitxor_assign", bitxor_assign(xmm, rhs))

HorizontalAdd == Returned("horizontal_add", <<>>, Ok(<<horizontal_add(xmm)>>))

NextArith ==
    \/ Pow
    \/ Add \/ Sub \/ Mul \/ Div \/ BitAnd \/ BitOr \/ BitXor
    \/ AddAssign \/ SubAssign \/ MulAssign \/ DivAssign
    \/ BitAndAssign \/ BitOrAssign \/ BitXorAssign
    \/ HorizontalAdd

SpecArith == InitArith /\ [][NextArith]_vars

\* C16: pow(i32::MIN) is four lanes of the quiet NaN 0x7FC00100, returned
\* without negating n; for any other n < 0, -n is a positive i32 and pow(n) is
\* broadcast(1.0) / self.pow(-n)
C16_NegativePow ==
    (last.op = "pow" /\ last.args[1] < 0) =>
        IF last.args[1] = I32Min
        THEN \A i \in 1..LEN : last.ret[i] = {8} \cup (22..30)
        ELSE LET positive == pow_loop(from_scalar(One), xmm, -last.args[1])
             IN  /\ -last.args[1] \in 1..I32Max
                 /\ last.ret = div(from_scalar(One), positive)
                 /\ \A i \in 1..LEN : last.ret[i] = f32_div(One, positive[i])

\* 3.0 and 1.4 raised to -2: 1/9 and 1/1.96 as rounded by the division
C16_Witness ==
    /\ last.op = "pow"
    /\ last.args = <<-2>>
    /\ xmm = <<Three, OnePointFour, OnePointFour, Three>>
    /\ last.ret[1] = f32_div(One, f32_mul(Three, Three))
    /\ last.ret[1] # One
    /\ last.ret[2] # last.ret[1]

\* a^n < bound, for a >= 0 and bound >= 1, without forming a^n
RECURSIVE PowBelow(_, _, _)
PowBelow(a, n, bound) ==
    IF n = 0 THEN 1 < bound
    ELSE a = 0 \/ (a < bound /\ PowBelow(a, n - 1, (bound + a - 1) \div a))

RECURSIVE IntPow(_, _)
IntPow(k, n) == IF n = 0 THEN 1 ELSE k * IntPow(k, n - 1)

Magnitude(k) == IF k < 0 THEN -k ELSE k

\* the lane is an integer k whose power k^n is below 2^24 in magnitude
ExactPower(f, n) == IsSmallInt(f) /\ PowBelow(Magnitude(int_of_f32(f)), n, 2^24)

LaneOp(op, f, g) ==
    CASE op = "add" -> f32_add(f, g)
      [] op = "sub" -> f32_sub(f, g)
      [] op = "mul" -> f32_mul(f, g)
      [] op = "div" -> f32_div(f, g)
      [] op = "bitand" -> f \cap g
      [] op = "bitor" -> f \cup g
      [] op = "bitxor" -> (f \cup g) \ (f \cap g)

BinaryOps == {"add", "sub", "mul", "div", "bitand", "bitor", "bitxor"}

\* the value that a op b returns
BinaryResult(op, a, b) ==
    CASE op = "add" -> add(a, b)
      [] op = "sub" -> sub(a, b)
      [] op = "mul" -> mul(a, b)
      [] op = "div" -> div(a, b)
      [] op = "bitand" -> bitand(a, b)
      [] op = "bitor" -> bitor(a, b)
      [] op = "bitxor" -> bitxor(a, b)

AssignOf(op) ==
    CASE op = "add" -> "add_assign"
      [] op = "sub" -> "sub_assign"
      [] op = "mul" -> "mul_assign"
      [] op = "div" -> "div_assign"
      [] op = "bitand" -> "bitand_assign"
      [] op = "bitor" -> "bitor_assign"
      [] op = "bitxor" -> "bitxor_assign"

\* lanes that are integers below 4096 in magnitude: their sums, differences
\* and products are integers that f32 holds exactly
SmallInts(v) ==
    \A i \in 1..LEN : IsSmallInt(v[i]) /\ Magnitude(int_of_f32(v[i])) < 4096

IntOp(op, j, k) ==
    CASE op = "add" -> j + k
      [] op = "sub" -> j - k
      [] op = "mul" -> j * k

\* a sum or difference that is zero, or a product with a zero factor, is a
\* signed zero that no integer names
ZeroFree(op, j, k) == IntOp(op, j, k) # 0 /\ j # 0 /\ k # 0

\* C18: lane i of a op b is lane i of a combined with lane i of b by op (the
\* IEEE operation for + - * /, the bit operation on the 32 bits for & | ^),
\* whatever the other lanes hold, so on integer lanes + - * give the integer
\* results; and a op= b leaves in a the value that a op b returns, and leaves
\* b as it was
C18_Elementwise ==
    /\ [](\A op \in BinaryOps :
            last.op = op =>
                /\ \A i \in 1..LEN : last.ret[i] = LaneOp(op, xmm[i], rhs[i])
                /\ (op \in {"add", "sub", "mul"} /\ SmallInts(xmm) /\ SmallInts(rhs)) =>
                     \A i \in 1..LEN :
                         ZeroFree(op, int_of_f32(xmm[i]), int_of_f32(rhs[i])) =>
                             last.ret[i] = f32_of_int(IntOp(op, int_of_f32(xmm[i]), int_of_f32(rhs[i]))))
    /\ [][\A op \in BinaryOps :
            last'.op = AssignOf(op) =>
                /\ xmm' = BinaryResult(op, xmm, rhs)
                /\ \A i \in 1..LEN : xmm'[i] = LaneOp(op, xmm[i], rhs[i])
                /\ rhs' = rhs]_vars

\* a /= new(-1, 2, -2, -3) on [3, 2, 10, -3] has left [-3, 1, -5, 1]
C18_Witness ==
    /\ last.op = "div_assign"
    /\ rhs = vec_of_ints(-1, 2, -2, -3)
    /\ xmm = vec_of_ints(-3, 1, -5, 1)

LaneSum(v) == int_of_f32(v[1]) + int_of_f32(v[2]) + int_of_f32(v[3]) + int_of_f32(v[4])

\* C19: horizontal_add(v) is (v0 + v1) + (v2 + v3) in the build with sse3 and
\* (v0 + v2) + (v1 + v3) in the build without; when the lanes are integers whose
\* sums f32 holds exactly, both are the sum of the four lanes, and
\* horizontal_add(new(2, -1, 2, 8)) is 11
C19_HorizontalAdd ==
    last.op = "horizontal_add" =>
        /\ last.ret[1] = IF sse3
                         THEN f32_add(f32_add(xmm[1], xmm[2]), f32_add(xmm[3], xmm[4]))
                         ELSE f32_add(f32_add(xmm[1], xmm[3]), f32_add(xmm[2], xmm[4]))
        /\ SmallInts(xmm) =>
             IF LaneSum(xmm) = 0 THEN IsZero(last.ret[1])
             ELSE last.ret[1] = f32_of_int(LaneSum(xmm))
        /\ xmm = vec_of_ints(2, -1, 2, 8) => last.ret[1] = f32_of_int(11)

\* the sum of [2, -1, 2, 8] by the fallback sequence
C19_Witness ==
    /\ last.op = "horizontal_add"
    /\ ~sse3
    /\ xmm = vec_of_ints(2, -1, 2, 8)
    /\ last.ret = <<{20, 21, 24, 30}>>

(* ---- the lane selector (checked under SpecSelect) ---- *)
\* the lanes of a selector register: all-zeros, all-ones, the sign bit alone,
\* every bit but the sign bit, and the bits of 1.0
SelectLanes == {PosZero, i32_bits(-1), NegZero, Bits \ {SignBit}, One}

\* the three registers handed to selectf, in either build: the lanes pair the
\* two selector lanes with the two values of a and the two values of b
InitSelect ==
    /\ \E p, q \in SelectLanes, x, y, u, v \in Floats :
         /\ selMask = <<p, q, q, p>>
         /\ xmm = new(x, y, y, x)
         /\ rhs = new(u, v, u, v)
    /\ last = Call("init", 0, <<>>, Ok(<<>>))
    /\ sse41 \in BOOLEAN
    /\ sse3 = FALSE
    /\ made = <<>> /\ recent = <<>>
    /\ MemIdle
    /\ PowIdle

\* selectf(s, a, b) on the three registers
Select ==
    /\ Constructed
    /\ last' = Call("select", 0, <<>>, Ok(selectf(selMask, xmm, rhs)))
    /\ UNCHANGED xmm
    /\ OpsFrame

NextSelect == Select

SpecSelect == InitSelect /\ [][NextSelect]_vars

\* every lane of s is 0x00000000 or 0xFFFFFFFF
FullMask(s) == \A i \in 1..LEN : s[i] \in {PosZero, i32_bits(-1)}

\* in every lane of s the 31 bits below the sign bit are all ones or all zeros
UniformBelowSign(s) == \A i \in 1..LEN : s[i] \ {SignBit} \in {{}, Bits \ {SignBit}}

\* the statement for every selector whose lanes are uniform below the sign bit:
\* the blend and the three bitwise instructions return the same bits
C21_SelectForAll ==
    (last.op = "select" /\ UniformBelowSign(selMask)) =>
        /\ last.ret = selectf_sse41(selMask, xmm, rhs)
        /\ last.ret = selectf_sse2(selMask, xmm, rhs)

\* C21: selectf returns the blend in the build with sse4.1 and the three
\* bitwise instructions in the build without; on a selector whose every lane is
\* all-ones or all-zeros in all 32 bits the two return the same bits, lane i of
\* a where the lane of s is all-ones and lane i of b where it is all-zeros; in
\* a lane uniform below the sign bit the two agree exactly when the lane of s
\* is all-ones or all-zeros or a and b have the same bits below the sign bit
C21_Select ==
    last.op = "select" =>
        /\ last.ret = IF sse41 THEN selectf_sse41(selMask, xmm, rhs)
                      ELSE selectf_sse2(selMask, xmm, rhs)
        /\ FullMask(selMask) =>
             /\ last.ret = selectf_sse41(selMask, xmm, rhs)
             /\ last.ret = selectf_sse2(selMask, xmm, rhs)
             /\ \A i \in 1..LEN :
                  last.ret[i] = IF selMask[i] = PosZero THEN rhs[i] ELSE xmm[i]
        /\ UniformBelowSign(selMask) =>
             \A i \in 1..LEN :
                 (selectf_sse41(selMask, xmm, rhs)[i] = selectf_sse2(selMask, xmm, rhs)[i])
                     <=> \/ selMask[i] \in {PosZero, i32_bits(-1)}
                         \/ xmm[i] \ {SignBit} = rhs[i] \ {SignBit}

\* the build without sse4.1 has picked lanes 0 and 3 of a and lanes 1 and 2 of b
C21_Witness ==
    /\ last.op = "select"
    /\ ~sse41
    /\ selMask = <<i32_bits(-1), PosZero, PosZero, i32_bits(-1)>>
    /\ xmm = new(NegTwoHalf, QNaN, QNaN, NegTwoHalf)
    /\ rhs = new(PosZero, NegZero, PosZero, NegZero)
    /\ last.ret = <<NegTwoHalf, NegZero, PosZero, NegTwoHalf>>

(* ---- pow, statement by statement (checked under SpecPow) ---- *)
\* a call of pow(self, n) before its first statement; arg keeps the n passed,
\* iters counts the passes through the loop body
pow_called(self, n) ==
    [pc |-> "entry", self |-> self, arg |-> n, n |-> n,
     answer |-> <<>>, power |-> <<>>, iters |-> 0, ret |-> <<>>]

\* let mut answer = Vec4f::from_scalar(1.0); let mut power = self;
pow_entered(f) == [f EXCEPT !.pc = "loop", !.answer = from_scalar(One), !.power = f.self]

\* n -= 1 in place of n /= 2
pow_decremented(f) ==
    [f EXCEPT !.answer = IF f.n % 2 > 0 THEN mul_assign(f.answer, f.power) ELSE f.answer,
              !.n = f.n - 1,
              !.iters = f.iters + 1]

\* if n % 2 > 0 { answer *= power; } n /= 2;
pow_halved(f) ==
    [f EXCEPT !.answer = IF f.n % 2 > 0 THEN mul_assign(f.answer, f.power) ELSE f.answer,
              !.n = f.n \div 2,
              !.iters = f.iters + 1]

\* power *= power;
pow_squared(f) == [f EXCEPT !.power = mul_assign(f.power, f.power)]

\* the running call and its callers
Top == stack[Len(stack)]
Callers == SubSeq(stack, 1, Len(stack) - 1)

\* exponents given to pow: the small ones, the two ends of i32 and their
\* neighbours, and the largest power of two
PowInputs == PowExps \cup {I32Min + 1, I32Max, I32Max - 1, I32Max \div 2 + 1}

\* self is built by new; no call is running
InitPow ==
    /\ \E x, y \in ArithFloats : xmm = new(x, y, y, x)
    /\ rhs = NoWords
    /\ last = Call("init", 0, <<>>, Ok(<<>>))
    /\ stack = <<>>
    /\ sse3 = FALSE
    /\ SelectIdle
    /\ made = <<>> /\ recent = <<>> /\ sse41 = FALSE
    /\ MemIdle

PowFrame ==
    UNCHANGED <<xmm, made, recent, sse41, src, srcAddr, out, outAddr, origin, rhs, sse3, selMask>>

\* the running call returns value: to the caller of pow, or to the call of pow
\* that waits to divide
PowReturns(value) ==
    /\ IF Len(stack) = 1
       THEN /\ stack' = <<>>
            /\ last' = Call("pow", 0, <<Top.arg>>, Ok(value))
       ELSE /\ stack' = [Callers EXCEPT ![Len(stack) - 1].pc = "returned",
                                        ![Len(stack) - 1].ret = value]
            /\ UNCHANGED last
    /\ PowFrame

\* v.pow(n)
PowCall ==
    \E n \in PowInputs :
        /\ Constructed
        /\ stack = <<>>
        /\ stack' = <<pow_called(xmm, n)>>
        /\ UNCHANGED last
        /\ PowFrame

\* if n < 0 { if n == i32::MIN { return Self::nan_vec(); } ...
PowNanVec ==
    /\ stack # <<>>
    /\ Top.pc = "entry"
    /\ Top.n < 0
    /\ Top.n = I32Min
    /\ PowReturns(nan_vec)

\* ... self.pow(-n) ...
PowRecurse ==
    /\ stack # <<>>
    /\ Top.pc = "entry"
    /\ Top.n < 0
    /\ Top.n # I32Min
    /\ stack' = Append([stack EXCEPT ![Len(stack)].pc = "called"], pow_called(Top.self, -Top.n))
    /\ UNCHANGED last
    /\ PowFrame

\* return Vec4f::from_scalar(1.0) / self.pow(-n);
PowDivide ==
    /\ stack # <<>>
    /\ Top.pc = "returned"
    /\ PowReturns(div(from_scalar(One), Top.ret))

PowEnter ==
    /\ stack # <<>>
    /\ Top.pc = "entry"
    /\ Top.n >= 0
    /\ stack' = [stack EXCEPT ![Len(stack)] = pow_entered(Top)]
    /\ UNCHANGED last
    /\ PowFrame

\* a pass through the loop body that ends in break answer
PowBreak ==
    /\ stack # <<>>
    /\ Top.pc = "loop"
    /\ pow_halved(Top).n = 0
    /\ PowReturns(pow_halved(Top).answer)

\* a pass through the loop body that goes on to power *= power
PowSquare ==
    /\ stack # <<>>
    /\ Top.pc = "loop"
    /\ pow_halved(Top).n # 0
    /\ stack' = [stack EXCEPT ![Len(stack)] = pow_squared(pow_halved(Top))]
    /\ UNCHANGED last
    /\ PowFrame

NextPow ==
    \/ PowCall
    \/ PowNanVec
    \/ PowRecurse
    \/ PowDivide
    \/ PowEnter
    \/ PowBreak
    \/ PowSquare

\* a step of NextPow is possible exactly when a call is running or can be made
Running == stack # <<>> \/ Constructed

\* the thread is not stopped between statements: weak fairness of NextPow,
\* WF_vars(NextPow), with ENABLED <<NextPow>>_vars written out as Running
SpecPow == InitPow /\ [][NextPow]_vars /\ ([]<>(~Running) \/ []<><<NextPow>>_vars)

\* the passes the loop makes for n >= 0: one for 0, else the length of n in bits
Passes(n) == IF n = 0 THEN 1 ELSE bit_len(n)

\* the calls in progress: at most a call with a negative exponent other than
\* i32::MIN, which waits, and the call it made with the negated, non-negative
\* exponent, which runs
PowCalls ==
    /\ Len(stack) <= 2
    /\ \A i \in 1..Len(stack) :
         /\ stack[i].pc = "loop" => (stack[i].arg >= 0 /\ stack[i].n >= 0)
         /\ stack[i].pc \in {"called", "returned"} =>
              (stack[i].arg < 0 /\ stack[i].arg # I32Min /\ i = 1)
         /\ stack[i].pc = "called" <=> i < Len(stack)
         /\ stack[i].iters <= 30
         /\ i = 2 => /\ stack[1].pc = "called"
                     /\ stack[2].arg = -stack[1].arg
                     /\ stack[2].arg >= 0

\* what a step of the call does
PowSteps ==
    /\ (stack # <<>> /\ Top.pc = "loop") =>
         IF Len(stack') = Len(stack)
         THEN /\ Top'.pc = "loop"
              /\ Top'.n = Top.n \div 2
              /\ Top'.n > 0
              /\ Top'.iters = Top.iters + 1
         ELSE /\ Len(stack') = Len(stack) - 1
              /\ Top.n \div 2 = 0
              /\ Top.iters + 1 = Passes(Top.arg)
              /\ Top.iters + 1 \in 1..31
    /\ (stack # <<>> /\ Top.arg = I32Min) =>
         /\ stack' = <<>>
         /\ last'.ret = nan_vec
    /\ (stack # <<>> /\ Top.pc = "returned") => Len(stack') = Len(stack) - 1
    /\ (stack # <<>> /\ stack' = <<>>) =>
         /\ last'.op = "pow"
         /\ last'.args = <<stack[1].arg>>
         /\ last'.ret = pow(xmm, stack[1].arg)

\* C22: pow(n) terminates for every n: a call that has begun returns; for n >= 0
\* each pass through the loop halves n and the loop exits on the pass that
\* brings n to 0, after as many passes as n has bits, at most 31 and one for
\* n = 0; for n < 0 other than i32::MIN the call makes one call of pow with -n,
\* which is not negative, and divides on its return; for i32::MIN the first
\* step returns nan_vec; the value returned is pow(self, n)
C22_Terminates ==
    /\ []PowCalls
    /\ [][PowSteps]_vars
    /\ (stack # <<>>) ~> (stack = <<>> /\ last.op = "pow")

\* pow(i32::MIN + 1) waits on pow(i32::MAX), which is about to make its 31st
\* and last pass
C22_Witness ==
    /\ Len(stack) = 2
    /\ stack[1].arg = I32Min + 1
    /\ stack[2].arg = I32Max
    /\ stack[2].iters = 30
    /\ stack[2].n = 1
====
